---- MODULE Spec2Model ----
(***************************************************************************)
(* AvailabilitySensor of nucypher/network/protocols.py: a LoopingCall that *)
(* periodically samples known nodes, records one boolean per round in a    *)
(* bounded deque, and walks a {threshold: action} dict against the score.  *)
(***************************************************************************)
EXTENDS Integers, Sequences, FiniteSets, TLC

\* ------------------------------------------------------------------ bounds
MaxRetention == 4      \* retention is drawn from 1..MaxRetention
MaxSampleSize == 2     \* sample_size from 1..MaxSampleSize, sensitivity one further
MaxPeers == 2          \* the peer directory holds 0..MaxPeers known nodes
MaxClock == 1          \* the wall clock takes MaxClock steps of ClockStep seconds
MaxHostLen == 2        \* hosts are the texts of up to MaxHostLen characters, and two names
MaxBodyLen == 3        \* a locator is an identity part, a scheme and up to MaxBodyLen tokens

\* --------------------------------------------------------------- constants
MAXIMUM_ALONE_TIME == 60 * 2
HTTP_OK == 200
StatusCodes == {HTTP_OK, 503}
ClockStep == MAXIMUM_ALONE_TIME
None == -1             \* __start_time before the first start()

VARIABLES
    retention,      \* self.retention, the deque's maxlen
    sample_size,    \* self.sample_size
    sensitivity,    \* self.sensitivity
    warnings,       \* self.warnings: the dict as its (key, value) items in insertion order
    records,        \* self._records, oldest first; a Record's time is written and
                    \* never read, so a record is kept as its result
    start_time,     \* self.__start_time
    running,        \* self.__task.running
    now,            \* maya.now().epoch
    last,           \* what the last operation did: its inputs, calls, logs and error
    wire,           \* an InterfaceInfo on its way through bytes() and from_bytes()
    uri             \* a locator given to parse_node_uri and what the call gave back

sensor == <<retention, sample_size, sensitivity, warnings, records, start_time, running, now, last>>
vars == <<retention, sample_size, sensitivity, warnings, records, start_time, running, now, last,
          wire, uri>>
config == <<retention, sample_size, sensitivity, warnings>>

\* ------------------------------------------------- the escalation policy
\* d[k] = v of a Python dict: an existing key keeps its position and takes
\* the new value, a new key goes last.
DictSet(d, k, v) ==
    IF \E i \in 1..Len(d) : d[i][1] = k
    THEN [i \in 1..Len(d) |-> IF d[i][1] = k THEN <<k, v>> ELSE d[i]]
    ELSE Append(d, <<k, v>>)

Warnings(r) ==
    DictSet(DictSet(DictSet(<<>>, 1, "mild"), r \div 2, "medium"), r, "severe")

\* The three actions: the log levels each emits and the error it ends with.
mild_warning == [log |-> <<"info">>, error |-> "none"]

medium_warning == [log |-> <<"warning">>, error |-> "none"]

\* self.log.critial: twisted's Logger has no such attribute, so the lookup
\* raises before anything is logged and before Unreachable is raised.
severe_warning == [log |-> <<>>, error |-> "AttributeError"]

Call(action) ==
    CASE action = "mild" -> mild_warning
      [] action = "medium" -> medium_warning
      [] action = "severe" -> severe_warning

\* ---------------------------------------------------------------- scoring
failed_records(recs) == SelectSeq(recs, LAMBDA rec : rec.result)

\* Mutant: the failures over the current occupancy of the window.
score_over_occupancy(recs, r) == [num |-> Len(failed_records(recs)), den |-> Len(recs)]

\* len(failed_records) / self.retention, kept as the exact fraction.
score(recs, r) == [num |-> Len(failed_records(recs)), den |-> r]

\* Mutant: the failure count, not the fraction, against the threshold.
CountGE(s, threshold) == s.num >= threshold

\* score >= threshold for an integer threshold and a positive denominator.
ScoreGE(s, threshold) == s.num >= threshold * s.den

RECURSIVE WarnFrom(_, _, _, _, _)
WarnFrom(w, i, s, invoked, log) ==
    IF i > Len(w) THEN [invoked |-> invoked, log |-> log, error |-> "none"]
    ELSE IF ScoreGE(s, w[i][1])
         THEN LET out == Call(w[i][2]) IN
              IF out.error # "none"
              THEN [invoked |-> Append(invoked, w[i][2]), log |-> log \o out.log,
                    error |-> out.error]
              ELSE WarnFrom(w, i + 1, s, Append(invoked, w[i][2]), log \o out.log)
         ELSE WarnFrom(w, i + 1, s, invoked, log)

\* Mutant: an action that raises does not end the loop over the policy; the
\* first error is raised once every entry has been looked at.
RECURSIVE WarnOn(_, _, _, _, _, _)
WarnOn(w, i, s, invoked, log, error) ==
    IF i > Len(w) THEN [invoked |-> invoked, log |-> log, error |-> error]
    ELSE IF ScoreGE(s, w[i][1])
         THEN WarnOn(w, i + 1, s, Append(invoked, w[i][2]), log \o Call(w[i][2]).log,
                     IF error = "none" THEN Call(w[i][2]).error ELSE error)
         ELSE WarnOn(w, i + 1, s, invoked, log, error)

issue_warnings_resuming(w, recs, r) == WarnOn(w, 1, score(recs, r), <<>>, <<>>, "none")

issue_warnings(w, recs, r) == WarnFrom(w, 1, score(recs, r), <<>>, <<>>)

\* Mutant: a full window drops its newest record, not its oldest.
record_drops_newest(recs, r, result) ==
    LET rec == [result |-> result] IN
    IF Len(recs) < r THEN Append(recs, rec)
    ELSE IF r = 0 THEN recs
    ELSE Append(SubSeq(recs, 1, Len(recs) - 1), rec)

\* Mutant: a deque without maxlen.
record_unbounded(recs, r, result) == Append(recs, [result |-> result])

\* self._records.append(measurement) on a deque(maxlen=r)
record(recs, r, result) ==
    LET rec == [result |-> result] IN
    IF Len(recs) < r THEN Append(recs, rec)
    ELSE IF r = 0 THEN recs
    ELSE Append(Tail(recs), rec)

\* ------------------------------------------------------------ measurement
\* Mutant: failed > self.sensitivity.
measure_strict(sens, ssize, statuses) ==
    IF sens > ssize
    THEN [error |-> "ValueError", statuses |-> <<>>, result |-> FALSE]
    ELSE LET failed == Len(SelectSeq(statuses, LAMBDA code : code # HTTP_OK)) IN
         [error |-> "none", statuses |-> statuses, result |-> failed > sens]

\* Mutant: no check of the sensitivity against the sample size.
measure_unguarded(sens, ssize, statuses) ==
    LET failed == Len(SelectSeq(statuses, LAMBDA code : code # HTTP_OK)) IN
    [error |-> "none", statuses |-> statuses, result |-> failed >= sens]

\* statuses[i]: the status code of the probe of the i-th sampled node.
measure(sens, ssize, statuses) ==
    IF sens > ssize
    THEN [error |-> "ValueError", statuses |-> <<>>, result |-> FALSE]
    ELSE LET failed == Len(SelectSeq(statuses, LAMBDA code : code # HTTP_OK)) IN
         [error |-> "none", statuses |-> statuses, result |-> failed >= sens]

\* random.sample(population=known_nodes, k=quantity) raises its own
\* ValueError when the sample is larger than the population.
sample(known, quantity) ==
    IF quantity > known THEN "ValueError(sample)" ELSE "none"

\* Mutant: delta > self.MAXIMUM_ALONE_TIME.
AloneStrict(t, st) == t - st > MAXIMUM_ALONE_TIME

\* Mutant: the epoch itself, not the time since start(), against the limit.
AloneSinceEpoch(t, st) == t >= MAXIMUM_ALONE_TIME

\* delta >= self.MAXIMUM_ALONE_TIME, delta = now - self.__start_time
Alone(t, st) == t - st >= MAXIMUM_ALONE_TIME

\* Mutant: one known node fewer than the sample size is let through.
SparseOffByOne(known, ssize) == known < ssize - 1

\* len(self._ursula.known_nodes) < self.sample_size
Sparse(known, ssize) == known < ssize

Quiet(recs) ==
    [records |-> recs, statuses |-> <<>>, appended |-> <<>>, invoked |-> <<>>,
     log |-> <<>>, error |-> "none", measured |-> FALSE]

\* One call of maintain() with self.__start_time = st at time t; known is
\* len(self._ursula.known_nodes).
maintain(recs, st, t, known, lonely, statuses) ==
    IF known = 0
    THEN IF ~lonely
         THEN IF st = None
              THEN [Quiet(recs) EXCEPT !.error = "TypeError"]
              ELSE IF Alone(t, st)
                   THEN LET out == severe_warning IN
                        [Quiet(recs) EXCEPT !.invoked = <<"severe">>, !.log = out.log,
                                            !.error = out.error]
                   ELSE Quiet(recs)
         ELSE Quiet(recs)
    ELSE IF Sparse(known, sample_size)
    THEN Quiet(recs)
    ELSE LET m == measure(sensitivity, sample_size, statuses) IN
         IF m.error # "none"
         THEN [Quiet(recs) EXCEPT !.error = m.error, !.measured = TRUE]
         ELSE LET recs2 == record(recs, retention, m.result)
                  w == issue_warnings(warnings, recs2, retention)
              IN [records |-> recs2, statuses |-> m.statuses, appended |-> <<m.result>>,
                  invoked |-> w.invoked, log |-> w.log, error |-> w.error,
                  measured |-> TRUE]

\* ---------------------------------------------------------------- actions
NoRound(op) ==
    [op |-> op, ran |-> FALSE, known |-> 0, lonely |-> FALSE, statuses |-> <<>>,
     appended |-> <<>>, invoked |-> <<>>, log |-> <<>>, error |-> "none",
     measured |-> FALSE]

\* What handle_measurement_errors adds when the LoopingCall's deferred fails.
handle_measurement_errors(out) ==
    IF out.error # "none" THEN Append(out.log, "warn") ELSE out.log

\* LoopingCall.__call__: run maintain(); a raised error stops the loop
\* (running = False) and fires the errback of the deferred start() returned.
Round(op, st, known, lonely, statuses) ==
    LET out == maintain(records, st, now, known, lonely, statuses) IN
    /\ records' = out.records
    /\ running' = (out.error = "none")
    /\ last' = [op |-> op, ran |-> TRUE, known |-> known, lonely |-> lonely,
                statuses |-> out.statuses, appended |-> out.appended,
                invoked |-> out.invoked, log |-> handle_measurement_errors(out),
                error |-> out.error, measured |-> out.measured]

\* The status codes the probes of one round can return: one per sampled
\* node when there are nodes enough to sample, none otherwise.
Probes(known) ==
    IF known >= sample_size /\ sensitivity <= sample_size
    THEN [1..sample_size -> StatusCodes] ELSE {<<>>}

\* self._ursula.lonely is read only when there are no known nodes.
Lonely(known) == IF known = 0 THEN BOOLEAN ELSE {FALSE}

\* start() as it would be with another activation instant st or another
\* window recs to start from; the mutants of start() are instances of it.
StartWith(immediately, st, recs) ==
    /\ IF ~running
       THEN /\ start_time' = st
            /\ IF immediately
               THEN \E known \in 0..MaxPeers : \E lonely \in Lonely(known) :
                        \E statuses \in Probes(known) :
                            LET out == maintain(recs, st, now, known, lonely, statuses) IN
                            /\ records' = out.records
                            /\ running' = (out.error = "none")
                            /\ last' = [op |-> "start", ran |-> TRUE, known |-> known,
                                        lonely |-> lonely, statuses |-> out.statuses,
                                        appended |-> out.appended, invoked |-> out.invoked,
                                        log |-> handle_measurement_errors(out),
                                        error |-> out.error, measured |-> out.measured]
               ELSE /\ running' = TRUE
                    /\ records' = recs
                    /\ last' = NoRound("start")
       ELSE /\ UNCHANGED <<start_time, running, records>>
            /\ last' = NoRound("start")
    /\ UNCHANGED <<wire, uri, config, now>>

\* Mutant: __start_time is set by the first start() only.
start_keeps_first_time(immediately) ==
    StartWith(immediately, IF start_time = None THEN now ELSE start_time, records)

\* Mutant: start() begins with an empty window.
start_clearing(immediately) == StartWith(immediately, now, <<>>)

\* start(now=immediately)
start(immediately) ==
    /\ IF ~running
       THEN /\ start_time' = now
            /\ IF immediately
               THEN \E known \in 0..MaxPeers : \E lonely \in Lonely(known) :
                        \E statuses \in Probes(known) :
                            Round("start", now, known, lonely, statuses)
               ELSE /\ running' = TRUE
                    /\ records' = records
                    /\ last' = NoRound("start")
       ELSE /\ UNCHANGED <<start_time, running, records>>
            /\ last' = NoRound("start")
    /\ UNCHANGED <<wire, uri, config, now>>

\* Mutant: stop() leaves the LoopingCall running.
stop_without_cancel ==
    /\ running' = running
    /\ last' = NoRound("stop")
    /\ UNCHANGED <<wire, uri, config, records, start_time, now>>

stop ==
    /\ running' = (IF running THEN FALSE ELSE running)
    /\ last' = NoRound("stop")
    /\ UNCHANGED <<wire, uri, config, records, start_time, now>>

\* One firing of the LoopingCall.
tick ==
    /\ running
    /\ \E known \in 0..MaxPeers : \E lonely \in Lonely(known) :
           \E statuses \in Probes(known) :
               Round("maintain", start_time, known, lonely, statuses)
    /\ UNCHANGED <<wire, uri, config, start_time, now>>

\* measure() called on its own, outside a round: the sensitivity check, then
\* the sample, then the probes; nothing is recorded.
measure_call ==
    /\ \E known \in 0..MaxPeers : \E statuses \in Probes(known) :
           LET m == measure(sensitivity, sample_size, statuses)
               drawn == sample(known, sample_size)
           IN last' = [NoRound("measure") EXCEPT
                          !.known = known,
                          !.statuses = IF drawn = "none" THEN m.statuses ELSE <<>>,
                          !.error = IF m.error # "none" THEN m.error ELSE drawn]
    /\ UNCHANGED <<wire, uri, config, records, start_time, running, now>>

\* The wall clock moves on.
advance ==
    /\ now + ClockStep <= MaxClock * ClockStep
    /\ now' = now + ClockStep
    /\ last' = NoRound("advance")
    /\ UNCHANGED <<wire, uri, config, records, start_time, running>>

Init ==
    /\ retention \in 1..MaxRetention
    /\ sample_size \in 1..MaxSampleSize
    /\ sensitivity \in 1..(MaxSampleSize + 1)
    /\ warnings = Warnings(retention)
    /\ records = <<>>
    /\ start_time = None
    /\ running = FALSE
    /\ now = 0
    /\ last = NoRound("init")
    /\ wire = [stage |-> "idle"]
    /\ uri = [stage |-> "idle"]

Next ==
    \/ \E immediately \in BOOLEAN : start(immediately)
    \/ stop
    \/ tick
    \/ measure_call
    \/ advance

Spec == Init /\ [][Next]_vars

\* ------------------------------------------------------------ InterfaceInfo
\* Text is a sequence of code points, bytes a sequence of 0..255, and an int
\* its base-256 digits, most significant first, without leading zeros.
COLON == 58
Localhost == <<108, 111, 99, 97, 108, 104, 111, 115, 116>>
Loopback == <<49, 50, 55, 46, 48, 46, 48, 46, 49>>
HostChars == {97, 46, 233, COLON}
PortDigits == {0, COLON, 255}

RECURSIVE Strip(_)
Strip(digits) ==
    IF digits # <<>> /\ Head(digits) = 0 THEN Strip(Tail(digits)) ELSE digits

\* str.encode("utf-8"), for code points below 65536
RECURSIVE utf8_encode(_)
utf8_encode(text) ==
    IF text = <<>> THEN <<>>
    ELSE LET cp == Head(text) IN
         (IF cp < 128 THEN <<cp>>
          ELSE IF cp < 2048 THEN <<192 + (cp \div 64), 128 + (cp % 64)>>
          ELSE <<224 + (cp \div 4096), 128 + ((cp \div 64) % 64), 128 + (cp % 64)>>)
         \o utf8_encode(Tail(text))

Continuation(b) == b >= 128 /\ b < 192

\* bytes.decode("utf-8"): the text, or <<-1>> for UnicodeDecodeError
RECURSIVE utf8_decode(_)
utf8_decode(bs) ==
    IF bs = <<>> THEN <<>>
    ELSE LET b == Head(bs)
             n == IF b < 128 THEN 1
                  ELSE IF b >= 194 /\ b < 224 THEN 2
                  ELSE IF b >= 224 /\ b < 240 THEN 3 ELSE 0
         IN IF n = 0 \/ Len(bs) < n \/ \E i \in 2..n : ~Continuation(bs[i])
            THEN <<-1>>
            ELSE LET cp == IF n = 1 THEN b
                           ELSE IF n = 2 THEN (b - 192) * 64 + (bs[2] - 128)
                           ELSE (b - 224) * 4096 + (bs[2] - 128) * 64 + (bs[3] - 128)
                     rest == utf8_decode(SubSeq(bs, n + 1, Len(bs)))
                 IN IF rest = <<-1>> \/ (n = 3 /\ cp < 2048) THEN <<-1>>
                    ELSE <<cp>> \o rest

\* int.to_bytes(4, "big"): OverflowError, here <<-1>>, above four bytes
to_bytes(port) ==
    IF Len(port) > 4 THEN <<-1>>
    ELSE [i \in 1..(4 - Len(port)) |-> 0] \o port

\* int.from_bytes(port_bytes, "big")
from_bytes_int(port_bytes) == Strip(port_bytes)

\* InterfaceInfo.__init__
InterfaceInfo(host, port) ==
    [host |-> IF host = Localhost THEN Loopback ELSE host, port |-> port]

\* InterfaceInfo.__bytes__
Bytes(info) == utf8_encode(info.host) \o <<COLON>> \o to_bytes(info.port)

FirstIndex(bs, b) ==
    IF \E i \in 1..Len(bs) : bs[i] = b
    THEN CHOOSE i \in 1..Len(bs) : bs[i] = b /\ \A j \in 1..(i - 1) : bs[j] # b
    ELSE 0

LastIndex(bs, b) ==
    IF \E i \in 1..Len(bs) : bs[i] = b
    THEN CHOOSE i \in 1..Len(bs) : bs[i] = b /\ \A j \in (i + 1)..Len(bs) : bs[j] # b
    ELSE 0

Decoded(bs, at) ==
    IF at = 0 THEN [error |-> "ValueError", info |-> InterfaceInfo(<<>>, <<>>)]
    ELSE LET host == utf8_decode(SubSeq(bs, 1, at - 1))
             port == from_bytes_int(SubSeq(bs, at + 1, Len(bs)))
         IN IF host = <<-1>>
            THEN [error |-> "UnicodeDecodeError", info |-> InterfaceInfo(<<>>, <<>>)]
            ELSE [error |-> "none", info |-> InterfaceInfo(host, port)]

\* Mutant: url_string.rsplit(b':', 1)
from_bytes_rsplit(url_string) == Decoded(url_string, LastIndex(url_string, COLON))

\* InterfaceInfo.from_bytes: url_string.split(b':', 1)
from_bytes(url_string) == Decoded(url_string, FirstIndex(url_string, COLON))

RECURSIVE Texts(_, _)
Texts(chars, n) ==
    IF n = 0 THEN {<<>>}
    ELSE LET shorter == Texts(chars, n - 1) IN
         shorter \cup {Append(t, c) : t \in shorter, c \in chars}

Hosts == Texts(HostChars, MaxHostLen) \cup {Localhost, Loopback}

Ports == {Strip(d) : d \in [1..4 -> PortDigits]}

WireInit ==
    /\ retention = 1 /\ sample_size = 1 /\ sensitivity = 1
    /\ warnings = Warnings(1)
    /\ records = <<>> /\ start_time = None /\ running = FALSE /\ now = 0
    /\ last = NoRound("init")
    /\ uri = [stage |-> "idle"]
    /\ \E host \in Hosts, port \in Ports :
           wire = [stage |-> "made", host |-> host, port |-> port,
                   info |-> InterfaceInfo(host, port), bytes |-> <<>>, error |-> "none"]

encode ==
    /\ wire.stage = "made"
    /\ wire' = [wire EXCEPT !.stage = "encoded", !.bytes = Bytes(wire.info)]
    /\ UNCHANGED <<sensor, uri>>

decode ==
    /\ wire.stage = "encoded"
    /\ LET got == from_bytes(wire.bytes) IN
       wire' = [wire EXCEPT !.stage = "decoded", !.info = got.info, !.error = got.error]
    /\ UNCHANGED <<sensor, uri>>

WireNext ==
    \/ encode
    \/ decode

SpecWire == WireInit /\ [][WireNext]_vars

\* ----------------------------------------------------------- parse_node_uri
\* A locator is a sequence of tokens: the words "https", "http" and "n", the
\* digit "9", the marks ":", "/" and "@", and the identity texts "A" (a
\* checksum address) and "a" (not one).
HTTPS == <<"https", ":", "/", "/">>
HTTP == <<"http", ":", "/", "/">>
Words == {"https", "http", "n", "A", "a"}
BodyTokens == {"n", "9", ":", "/", "@"}
NoText == <<"None">>

StartsWith(text, prefix) ==
    Len(text) >= Len(prefix) /\ SubSeq(text, 1, Len(prefix)) = prefix

\* str.split(sep): the parts between all the separators
RECURSIVE Split(_, _)
Split(text, sep) ==
    LET at == FirstIndex(text, sep) IN
    IF at = 0 THEN <<text>>
    ELSE <<SubSeq(text, 1, at - 1)>> \o Split(SubSeq(text, at + 1, Len(text)), sep)

\* eth_utils.is_checksum_address
is_checksum_address(text) == text = <<"A">>

\* int(port, 10) of a text of digits
RECURSIVE Decimal(_)
Decimal(digits) ==
    IF digits = <<>> THEN 0
    ELSE 10 * Decimal(SubSeq(digits, 1, Len(digits) - 1)) + 9

\* The one element of a singleton; {F(x) : x \in {e}} evaluates e once.
The(S) == CHOOSE x \in S : TRUE

\* SplitResult.port: None without a port text, else int(port, 10) in 0..65535
PortOf(port) ==
    IF port = <<>> THEN [kind |-> "None"]
    ELSE IF \E i \in 1..Len(port) : port[i] # "9" THEN [kind |-> "ValueError"]
    ELSE The({IF value > 65535 THEN [kind |-> "ValueError"]
              ELSE [kind |-> "int", value |-> value] : value \in {Decimal(port)}})

\* SplitResult._hostinfo: the netloc after its last "@", around its first colon
HostInfo(hostinfo, mark) ==
    [hostname |-> IF mark = 0 THEN hostinfo ELSE SubSeq(hostinfo, 1, mark - 1),
     port |-> IF mark = 0 THEN <<>> ELSE SubSeq(hostinfo, mark + 1, Len(hostinfo))]

HostAndPort(netloc) ==
    The({The({The({[hostname |-> IF info.hostname = <<>> THEN NoText ELSE info.hostname,
                    port |-> PortOf(info.port)] :
                      info \in {HostInfo(hostinfo, mark)}}) :
                mark \in {FirstIndex(hostinfo, ":")}}) :
          hostinfo \in {SubSeq(netloc, LastIndex(netloc, "@") + 1, Len(netloc))}})

\* urlsplit's netloc: what follows "//" up to the next "/"
Netloc(rest) ==
    IF StartsWith(rest, <<"/", "/">>)
    THEN The({The({IF slash = 0 THEN after ELSE SubSeq(after, 1, slash - 1) :
                    slash \in {FirstIndex(after, "/")}}) :
               after \in {SubSeq(rest, 3, Len(rest))}})
    ELSE <<>>

\* urlsplit's scheme: what stands before the first colon, when it is a name
Scheme(url, colon) ==
    IF /\ colon > 1
       /\ url[1] \in Words
       /\ \A i \in 1..(colon - 1) : url[i] \in Words \cup {"9"}
    THEN SubSeq(url, 1, colon - 1) ELSE <<>>

\* urllib.parse.urlparse, with the hostname and port of its result
urlparse(url) ==
    The({The({The({[scheme |-> scheme, hostname |-> host.hostname, port |-> host.port] :
                    host \in {HostAndPort(Netloc(rest))}}) :
                rest \in {IF scheme = <<>> THEN url
                          ELSE SubSeq(url, Len(scheme) + 2, Len(url))}}) :
          scheme \in {Scheme(url, FirstIndex(url, ":"))}})

Raised(line) ==
    [error |-> "ValueError", line |-> line, hostname |-> NoText,
     port |-> [kind |-> "None"], checksum_address |-> NoText]

Returned(parsed_uri, checksum_address) ==
    IF parsed_uri.scheme # <<"https">> THEN Raised(62)
    ELSE IF parsed_uri.port.kind = "ValueError" THEN Raised(65)
    ELSE [error |-> "none", line |-> 66, hostname |-> parsed_uri.hostname,
          port |-> IF parsed_uri.port.kind = "None" \/ parsed_uri.port.value = 0
                   THEN [kind |-> "DEFAULT_REST_PORT"] ELSE parsed_uri.port,
          checksum_address |-> checksum_address]

\* Lines 49-66 of parse_node_uri: the forced scheme, urlparse and the result.
Located(text, checksum_address) ==
    The({The({Returned(IF first.scheme = <<>> THEN urlparse(HTTPS \o forced) ELSE first,
                       checksum_address) :
                first \in {urlparse(forced)}}) :
          forced \in {IF StartsWith(text, HTTPS) THEN text ELSE HTTPS \o text}})

Identified(parts, checked) ==
    IF Len(parts) # 2 THEN Raised(37)
    ELSE IF checked /\ ~is_checksum_address(parts[1]) THEN Raised(41)
    ELSE Located(parts[2], parts[1])

\* Mutant: the identity before "@" is taken without is_checksum_address.
parse_node_uri_unchecked(locator) ==
    IF FirstIndex(locator, "@") # 0
    THEN The({Identified(parts, FALSE) : parts \in {Split(locator, "@")}})
    ELSE Located(locator, NoText)

parse_node_uri(locator) ==
    IF FirstIndex(locator, "@") # 0
    THEN The({Identified(parts, TRUE) : parts \in {Split(locator, "@")}})
    ELSE Located(locator, NoText)

Locators ==
    {identity \o scheme \o body :
        identity \in {<<>>, <<"@">>, <<"A", "@">>, <<"a", "@">>},
        scheme \in {<<>>, HTTPS, HTTP},
        body \in Texts(BodyTokens, MaxBodyLen)}

UriInit ==
    /\ retention = 1 /\ sample_size = 1 /\ sensitivity = 1
    /\ warnings = Warnings(1)
    /\ records = <<>> /\ start_time = None /\ running = FALSE /\ now = 0
    /\ last = NoRound("init")
    /\ wire = [stage |-> "idle"]
    /\ \E locator \in Locators :
           uri = [stage |-> "given", given |-> locator, result |-> Raised(33)]

parse ==
    /\ uri.stage = "given"
    /\ \E locator \in {uri.given} :
           uri' = [uri EXCEPT !.stage = "parsed", !.result = parse_node_uri(locator)]
    /\ UNCHANGED <<sensor, wire>>

UriNext == parse

SpecUri == UriInit /\ [][UriNext]_vars

\* ------------------------------------------------------ claim vocabulary
Delta == now - start_time

Invoked(action) == Cardinality({i \in 1..Len(last.invoked) : last.invoked[i] = action})

FailedProbes(statuses) == Cardinality({i \in 1..Len(statuses) : statuses[i] # HTTP_OK})

FailedCount == Cardinality({i \in 1..Len(records) : records[i].result})

\* The last operation ran a measurement round that appended its record.
Measured == last.ran /\ last.measured /\ last.appended # <<>>

\* The state the last operation left equals what a skipped round leaves.
SilentRound ==
    /\ last.statuses = <<>>
    /\ last.appended = <<>>
    /\ last.invoked = <<>>
    /\ last.log = <<>>
    /\ last.error = "none"

Pushed(recs, r, flag) ==
    IF Len(recs) < r THEN recs \o <<[result |-> flag]>>
    ELSE SubSeq(recs, 2, Len(recs)) \o <<[result |-> flag]>>

\* ----------------------------------------------------------------- claims
\* C1: in every reachable state the window history holds at most
\* `retention` outcome records.
C1_LengthWithinRetention == Len(records) <= retention

C1_Witness ==
    /\ Measured
    /\ retention >= 2
    /\ Len(records) = retention
    /\ records[1].result /\ ~records[retention].result

\* C2 as stated: with retention > 1 no threshold evaluation invokes the
\* medium or the severe action.
C2_NeverMediumOrSevereAboveOne ==
    (Measured /\ retention > 1) => (Invoked("medium") = 0 /\ Invoked("severe") = 0)

\* C2 as amended: with retention >= 4 (so retention div 2 >= 2) no threshold
\* evaluation invokes the medium or the severe action.
C2_NeverMediumOrSevereFromFour ==
    (Measured /\ retention >= 4) => (Invoked("medium") = 0 /\ Invoked("severe") = 0)

C2_Witness ==
    /\ Measured
    /\ retention >= 4
    /\ FailedCount = retention
    /\ last.invoked = <<"mild">>

\* C3: the policy is the three entries 1 -> mild, retention div 2 -> medium,
\* retention -> severe, and a round that leaves score >= 1 invokes mild.
C3_ThreeEntriesAndMildAtFullScore ==
    (Measured /\ FailedCount >= retention) =>
        /\ warnings = <<<<1, "mild">>, <<retention \div 2, "medium">>,
                        <<retention, "severe">>>>
        /\ Invoked("mild") >= 1

\* C4: after a round raises an error the handler logs it and the sensor is
\* still running, so maintain() keeps being invoked.
C4_RunningAfterError ==
    (last.ran /\ last.error # "none") =>
        (running /\ last.log # <<>> /\ last.log[Len(last.log)] = "warn")

\* C5: a round with no known nodes, not lonely, and MAXIMUM_ALONE_TIME or
\* more since start() invokes severe exactly once, probes nothing and
\* appends nothing.
C5_IsolationEscalates ==
    [][(last'.ran /\ last'.known = 0 /\ ~last'.lonely
            /\ now' - start_time' >= MAXIMUM_ALONE_TIME) =>
        /\ last'.invoked = <<"severe">>
        /\ last'.statuses = <<>>
        /\ last'.appended = <<>>
        /\ records' = records]_vars

C5_Witness ==
    /\ last.ran /\ last.known = 0 /\ ~last.lonely
    /\ Delta >= MAXIMUM_ALONE_TIME
    /\ last.invoked = <<"severe">>
    /\ records # <<>>

\* C6: a round with no known nodes that is lonely, or is less than
\* MAXIMUM_ALONE_TIME after start(), has no side effects and raises nothing.
C6_QuietWhenLonelyOrEarly ==
    [][(last'.ran /\ last'.known = 0
            /\ (last'.lonely \/ now' - start_time' < MAXIMUM_ALONE_TIME)) =>
        /\ last'.statuses = <<>>
        /\ last'.appended = <<>>
        /\ last'.invoked = <<>>
        /\ last'.log = <<>>
        /\ last'.error = "none"
        /\ records' = records
        /\ running']_vars

C6_WitnessLonely ==
    /\ last.ran /\ last.known = 0 /\ last.lonely
    /\ Delta >= MAXIMUM_ALONE_TIME
    /\ SilentRound /\ running

\* C7: a round with at least one known node but fewer than sample_size
\* leaves the window unchanged, probes nothing and invokes no action.
C7_QuietWhenSparse ==
    [][(last'.ran /\ last'.known >= 1 /\ last'.known < sample_size) =>
        /\ last'.statuses = <<>>
        /\ last'.appended = <<>>
        /\ last'.invoked = <<>>
        /\ records' = records]_vars

C7_Witness ==
    /\ last.ran /\ last.known >= 1 /\ last.known < sample_size
    /\ records # <<>>
    /\ FailedCount = retention
    /\ SilentRound

\* C8: a round with known nodes >= sample_size and sensitivity <= sample_size
\* appends exactly one record, whose flag is (probes not OK) >= sensitivity,
\* and a record holds that boolean only.
C8_OneRecordPerRound ==
    [][(last'.ran /\ last'.known >= sample_size /\ sensitivity <= sample_size) =>
        LET flag == FailedProbes(last'.statuses) >= sensitivity IN
        /\ Len(last'.statuses) = sample_size
        /\ last'.appended = <<flag>>
        /\ records' = Pushed(records, retention, flag)
        /\ \A i \in 1..Len(records') : records'[i] \in [result : BOOLEAN]]_vars

C8_Witness ==
    /\ last.ran /\ last.known >= sample_size /\ sensitivity <= sample_size
    /\ sensitivity = 2
    /\ FailedProbes(last.statuses) = 2
    /\ last.appended = <<TRUE>>
    /\ Len(records) >= 2
    /\ ~records[Len(records) - 1].result

\* C9: score is (records held whose flag is true) / retention, whatever the
\* occupancy of the window.
C9_ScoreOverRetention ==
    LET s == score(records, retention) IN
    /\ s.den > 0
    /\ s.num * retention = FailedCount * s.den

C9_Witness ==
    /\ Measured
    /\ Len(records) < retention
    /\ FailedCount >= 1
    /\ FailedCount < Len(records)

\* C10: after a round's record is appended every policy entry whose threshold
\* is <= score has its action invoked exactly once and no other action is
\* invoked.
C10_EverySatisfiedThresholdFires ==
    Measured =>
        \A i \in 1..Len(warnings) :
            Invoked(warnings[i][2]) =
                (IF FailedCount >= warnings[i][1] * retention THEN 1 ELSE 0)

\* C11: with sensitivity > sample_size measure() raises the configuration
\* error for every number of known nodes, probes nothing and records nothing,
\* called on its own or from a round.
C11_SensitivityGuard ==
    [][((last'.op = "measure" \/ (last'.ran /\ last'.measured))
            /\ sensitivity > sample_size) =>
        /\ last'.error = "ValueError"
        /\ last'.statuses = <<>>
        /\ last'.appended = <<>>
        /\ records' = records]_vars

C11_Witness ==
    /\ last.op = "measure"
    /\ last.known = 0
    /\ sensitivity > sample_size
    /\ last.error = "ValueError"
    /\ running

\* C12: start() on a stopped sensor makes it running and sets start_time to
\* the current instant; on a running sensor it changes nothing.
C12_StartOnlyWhenStopped ==
    [][last'.op = "start" =>
        IF ~running
        THEN running' /\ start_time' = now
        ELSE UNCHANGED <<start_time, running, records>>]_vars

\* C13: stop() leaves the sensor stopped, raises nothing and changes nothing
\* else; a round of the LoopingCall begins only while running, and a stopped
\* sensor runs again only through start().
C13_StopCancelsRounds ==
    [][/\ last'.op = "stop" =>
            /\ ~running'
            /\ last'.error = "none"
            /\ UNCHANGED <<records, start_time, now>>
       /\ last'.op = "maintain" => running
       /\ (~running /\ running') => last'.op = "start"]_vars

C13_Witness ==
    /\ last.op = "stop"
    /\ ~running
    /\ start_time # None
    /\ records # <<>>
    /\ FailedCount < retention

\* C17: every invocation of the severe action logs at critical level and
\* ends with the Unreachable error.
C17_SevereRaisesUnreachable ==
    Invoked("severe") >= 1 =>
        /\ last.error = "Unreachable"
        /\ \E i \in 1..Len(last.log) : last.log[i] = "critical"

\* C18: an append to a full window drops exactly the oldest record, keeps the
\* order of the others and puts the new record last; an append to a window
\* that is not full drops nothing.
C18_FirstInFirstOut ==
    [][last'.appended # <<>> =>
        LET new == [result |-> last'.appended[1]] IN
        IF Len(records) = retention
        THEN /\ Len(records') = retention
             /\ \A i \in 1..(retention - 1) : records'[i] = records[i + 1]
             /\ records'[retention] = new
        ELSE records' = Append(records, new)]_vars

C18_Witness ==
    /\ Measured
    /\ retention >= 3
    /\ Len(records) = retention
    /\ ~records[1].result
    /\ records[2].result
    /\ ~records[retention].result

\* C19: the alone time of a round is counted from the latest start(): a
\* start() on a stopped sensor sets start_time to that instant, nothing else
\* changes it, and a round without known nodes escalates exactly when the
\* node is not lonely and MAXIMUM_ALONE_TIME has passed since then.
C19_AloneTimePerActivation ==
    [][/\ (last'.op = "start" /\ ~running) => start_time' = now
       /\ start_time' # start_time => (last'.op = "start" /\ ~running)
       /\ (last'.ran /\ last'.known = 0) =>
            ((last'.invoked = <<"severe">>) <=>
                (~last'.lonely /\ now' - start_time' >= MAXIMUM_ALONE_TIME))]_vars

C19_Witness ==
    /\ last.op = "maintain"
    /\ last.known = 0 /\ ~last.lonely
    /\ start_time > 0
    /\ now >= MAXIMUM_ALONE_TIME
    /\ Delta < MAXIMUM_ALONE_TIME
    /\ SilentRound
    /\ running

\* C20: stop() and start() leave the window as it is, so the first round of
\* a new activation appends to the records of the earlier ones.
C20_WindowSurvivesRestart ==
    [][/\ last'.op = "stop" => records' = records
       /\ last'.op = "start" =>
            IF last'.appended # <<>>
            THEN records' = Pushed(records, retention, last'.appended[1])
            ELSE records' = records]_vars

C20_Witness ==
    /\ last.op = "start"
    /\ Measured
    /\ retention >= 2
    /\ FailedCount = retention
    /\ last.invoked # <<>>

\* C14: for a host without a colon and a port of at most four bytes, decoding
\* the encoding gives the same port and the loopback-normalised host, also when
\* the port's bytes contain the colon byte.
C14_RoundTrip ==
    (wire.stage = "decoded" /\ \A i \in 1..Len(wire.host) : wire.host[i] # COLON) =>
        /\ wire.error = "none"
        /\ wire.info.port = wire.port
        /\ wire.info.host = (IF wire.host = Localhost THEN Loopback ELSE wire.host)

C14_Witness ==
    /\ wire.stage = "decoded"
    /\ wire.host = Localhost
    /\ wire.port = <<COLON, 0, COLON, 255>>
    /\ wire.info = [host |-> Loopback, port |-> wire.port]
    /\ Len(wire.bytes) = 14

\* The locator without its identity part.
AfterIdentity(locator) ==
    SubSeq(locator, FirstIndex(locator, "@") + 1, Len(locator))

BeforeAt(locator) == SubSeq(locator, 1, FirstIndex(locator, "@") - 1)

\* C15: a locator that carries a scheme other than https is refused with an
\* error, never answered with a (hostname, port, identity) result.
C15_OtherSchemeRefused ==
    (uri.stage = "parsed" /\ StartsWith(AfterIdentity(uri.given), HTTP)) =>
        uri.result.error # "none"

\* C16: for a locator with "@" the call raises or returns as identity the
\* text before "@", which is not empty and is a checksum address; without
\* "@" the identity returned is none.
C16_IdentityValidated ==
    uri.stage = "parsed" =>
        IF FirstIndex(uri.given, "@") # 0
        THEN \/ uri.result.error # "none"
             \/ /\ uri.result.checksum_address = BeforeAt(uri.given)
                /\ BeforeAt(uri.given) # <<>>
                /\ is_checksum_address(BeforeAt(uri.given))
        ELSE uri.result.error = "none" => uri.result.checksum_address = NoText

C16_Witness ==
    /\ uri.stage = "parsed"
    /\ uri.given = <<"A", "@", "n", ":", "9">>
    /\ uri.result.error = "none"
    /\ uri.result.checksum_address = <<"A">>
    /\ uri.result.hostname = <<"n">>

====
